---- MODULE Spec2Model ----
(***************************************************************************)
(* A model of i.landsat.import: the band ordering, the metadata timestamp  *)
(* parser, the timestamp renderings and the per-scene import loop.         *)
(*                                                                         *)
(* Text is modelled as a sequence of one-character strings, so that the    *)
(* string operations of the source (partition, split, zfill, join) are     *)
(* computed on the characters and not assumed.  Str(t) turns such a text   *)
(* into a TLA+ string for the renderings.                                  *)
(*                                                                         *)
(* The run-scoped flags (skip_import, force_timestamp, tgis ...) are set   *)
(* by main() (lines 825-841) and read under the same names by              *)
(* get_timestamp, print_timestamp and import_geotiffs; the model holds     *)
(* them in the record `flags', visible to every step of the run, and the   *)
(* options in `options'.  -l and -t exclude each other (lines 45-47) and   *)
(* make the mode of the run.  The list `timestamps' of main() and of       *)
(* print_timestamp is the one list of the catalog lines of the run.        *)
(*                                                                         *)
(* The tables of constants.py and identifiers.py (scene and band           *)
(* templates, spectral sets, MONTHS, ZERO_TIMEZONE, the GeoTIFF extension) *)
(* are modelled from the specification.  The scenes of a run are           *)
(* directories or tar.gz files named in options['scene']; the pool and     *)
(* the single mapset are not part of the model.                            *)
(***************************************************************************)
EXTENDS Integers, Sequences, FiniteSets, TLC

(***************************************************************************)
(* Bounds of the model.                                                    *)
(***************************************************************************)
MaxBands == 3

MaxLines == 2

\* the spectral sets of one option
MaxSets == 2

\* the scenes of one run
MaxScenes == 2

(***************************************************************************)
(* Text helpers (Python str operations).                                   *)
(***************************************************************************)
DigitChars == <<"0", "1", "2", "3", "4", "5", "6", "7", "8", "9">>

\* The characters the model uses, in code point order (str comparison).
CodePointOrder ==
    <<".", "0", "1", "2", "3", "4", "5", "6", "7", "8", "9",
      "A", "B", "C", "D", "F", "I", "L", "M", "Q", "T", "V", "X", "_",
      "a", "l", "m", "t", "u", "x">>

Ord(c) == CHOOSE i \in 1..Len(CodePointOrder) : CodePointOrder[i] = c

IsDigitChar(c) == \E i \in 1..Len(DigitChars) : DigitChars[i] = c

DigitVal(c) == (CHOOSE i \in 1..Len(DigitChars) : DigitChars[i] = c) - 1

\* str.isdigit(): non-empty and every character is a digit
IsDigit(t) == Len(t) > 0 /\ \A i \in 1..Len(t) : IsDigitChar(t[i])

\* int(t) of a digit string
RECURSIVE IntOf(_)
IntOf(t) ==
    IF Len(t) = 0 THEN 0
    ELSE 10 * IntOf(SubSeq(t, 1, Len(t) - 1)) + DigitVal(t[Len(t)])

\* the text as a TLA+ string
RECURSIVE Str(_)
Str(t) == IF Len(t) = 0 THEN "" ELSE t[1] \o Str(Tail(t))

\* the positions where sep occurs in t
Occurrences(t, sep) ==
    {i \in 1..(Len(t) - Len(sep) + 1) : SubSeq(t, i, i + Len(sep) - 1) = sep}

Contains(t, sep) == Occurrences(t, sep) # {}

Min(S) == CHOOSE x \in S : \A y \in S : x <= y
Max(S) == CHOOSE x \in S : \A y \in S : x >= y

\* str.partition(sep): <<before, sep, after>> at the first occurrence,
\* <<t, "", "">> when sep does not occur
Partition(t, sep) ==
    IF Contains(t, sep)
    THEN LET i == Min(Occurrences(t, sep))
         IN  <<SubSeq(t, 1, i - 1), sep, SubSeq(t, i + Len(sep), Len(t))>>
    ELSE <<t, <<>>, <<>>>>

\* str.rpartition-like: the text after the last occurrence of sep
\* (t.rsplit(sep)[-1])
LastPart(t, sep) ==
    IF Contains(t, sep)
    THEN SubSeq(t, Max(Occurrences(t, sep)) + Len(sep), Len(t))
    ELSE t

\* os.path.splitext(t): <<root, ext>>, ext from the last dot (a leading dot
\* of the basename does not start an extension)
SplitExt(t) ==
    IF Contains(t, <<".">>) /\ Max(Occurrences(t, <<".">>)) > 1
    THEN LET i == Max(Occurrences(t, <<".">>))
         IN  <<SubSeq(t, 1, i - 1), SubSeq(t, i, Len(t))>>
    ELSE <<t, <<>>>>

\* a < b in str comparison
RECURSIVE LexLess(_, _)
LexLess(a, b) ==
    IF Len(b) = 0 THEN FALSE
    ELSE IF Len(a) = 0 THEN TRUE
    ELSE IF a[1] # b[1] THEN Ord(a[1]) < Ord(b[1])
    ELSE LexLess(Tail(a), Tail(b))

(***************************************************************************)
(* sort_list_of_bands                                                      *)
(***************************************************************************)
\* the band token of the sort key: item.partition('_B')[2].partition('.')[0]
BandToken(item) == Partition(Partition(item, <<"_", "B">>)[3], <<".">>)[1]

\* the key of sorted(): (int(token) if token.isdigit() else inf, item)
SortKey(item) ==
    [inf  |-> ~IsDigit(BandToken(item)),
     n    |-> IF IsDigit(BandToken(item)) THEN IntOf(BandToken(item)) ELSE 0,
     item |-> item]

\* a comparison of the file names alone
KeyLessLexical(a, b) == LexLess(a.item, b.item)

\* tuple comparison of two keys
KeyLess(a, b) ==
    IF a.inf # b.inf THEN b.inf
    ELSE IF ~a.inf /\ a.n # b.n THEN a.n < b.n
    ELSE LexLess(a.item, b.item)

\* sorted() is stable: an item goes after the items that are not greater
RECURSIVE InsertSorted(_, _)
InsertSorted(sorted, item) ==
    IF Len(sorted) = 0 THEN <<item>>
    ELSE IF KeyLess(SortKey(item), SortKey(sorted[1]))
         THEN <<item>> \o sorted
         ELSE <<sorted[1]>> \o InsertSorted(Tail(sorted), item)

RECURSIVE sort_list_of_bands(_)
sort_list_of_bands(bands) ==
    IF Len(bands) = 0 THEN <<>>
    ELSE InsertSorted(sort_list_of_bands(SubSeq(bands, 1, Len(bands) - 1)),
                      bands[Len(bands)])

(***************************************************************************)
(* The files of a scene directory.                                         *)
(***************************************************************************)
ScenePrefix == <<"L", "C", "0", "8">>

TifName(token) == ScenePrefix \o <<"_", "B">> \o token \o <<".", "T", "I", "F">>

MtlName == ScenePrefix \o <<"_", "M", "T", "L", ".", "t", "x", "t">>

AuxName == ScenePrefix \o <<"_", "B", "1", ".", "T", "I", "F", ".", "a", "u", "x",
                            ".", "x", "m", "l">>

VcidName == <<"L", "C", "0", "8", "_", "B", "6", "_", "V", "C", "I", "D", "_", "1",
              ".", "T", "I", "F">>

SceneFiles ==
    {TifName(<<"1">>), TifName(<<"2">>), TifName(<<"9">>), TifName(<<"1", "0">>),
     TifName(<<"1", "1">>), TifName(<<"Q", "A">>), VcidName, MtlName}

(***************************************************************************)
(* More text helpers.                                                      *)
(***************************************************************************)
\* str.split(sep) for a one-character separator: the list of parts
RECURSIVE Split(_, _)
Split(t, sep) ==
    IF Contains(t, <<sep>>)
    THEN LET p == Partition(t, <<sep>>)
         IN  <<p[1]>> \o Split(p[3], sep)
    ELSE <<t>>

\* sep.join(parts)
RECURSIVE Join(_, _)
Join(parts, sep) ==
    IF Len(parts) = 0 THEN <<>>
    ELSE IF Len(parts) = 1 THEN parts[1]
    ELSE parts[1] \o <<sep>> \o Join(Tail(parts), sep)

\* str.translate removing every occurrence of the character c
RECURSIVE Remove(_, _)
Remove(t, c) ==
    IF Len(t) = 0 THEN <<>>
    ELSE IF t[1] = c THEN Remove(Tail(t), c)
    ELSE <<t[1]>> \o Remove(Tail(t), c)

EndsWith(t, c) == Len(t) > 0 /\ t[Len(t)] = c

\* str(n) of a natural number
RECURSIVE DigitsOf(_)
DigitsOf(n) ==
    IF n < 10 THEN <<DigitChars[n + 1]>>
    ELSE DigitsOf(n \div 10) \o <<DigitChars[(n % 10) + 1]>>

\* str.zfill(w)
RECURSIVE ZFill(_, _)
ZFill(t, w) == IF Len(t) >= w THEN t ELSE ZFill(<<"0">> \o t, w)

\* t padded with zeroes on the right to w characters (the %f directive
\* reads "5" as 500000 microseconds)
RECURSIVE PadRight(_, _)
PadRight(t, w) == IF Len(t) >= w THEN t ELSE PadRight(t \o <<"0">>, w)

(***************************************************************************)
(* Date and time validation (datetime.strptime).                           *)
(***************************************************************************)
IsLeap(y) == (y % 4 = 0 /\ y % 100 # 0) \/ y % 400 = 0

DaysIn(y, m) ==
    IF m = 2 THEN (IF IsLeap(y) THEN 29 ELSE 28)
    ELSE IF m \in {4, 6, 9, 11} THEN 30 ELSE 31

\* a field of one or two digits
ShortNumber(t) == IsDigit(t) /\ Len(t) <= 2

\* datetime.strptime(date_string, '%Y-%m-%d') succeeds
ParsesAsDate(date_string) ==
    LET p == Split(date_string, "-")
    IN  /\ Len(p) = 3
        /\ IsDigit(p[1]) /\ Len(p[1]) = 4
        /\ ShortNumber(p[2]) /\ IntOf(p[2]) \in 1..12
        /\ ShortNumber(p[3]) /\ IntOf(p[3]) >= 1
        /\ IntOf(p[1]) >= 1
        /\ IntOf(p[3]) <= DaysIn(IntOf(p[1]), IntOf(p[2]))

\* a validation that accepts every date
validate_any_date(date_string) == TRUE

\* validate_date_string raises ValueError unless the date parses
validate_date_string(date_string) == ParsesAsDate(date_string)

\* datetime.strptime(time_string, '%H:%M:%S') succeeds
ParsesAsClock(clock) ==
    LET p == Split(clock, ":")
    IN  /\ Len(p) = 3
        /\ ShortNumber(p[1]) /\ IntOf(p[1]) <= 23
        /\ ShortNumber(p[2]) /\ IntOf(p[2]) <= 59
        /\ ShortNumber(p[3]) /\ IntOf(p[3]) <= 59

\* a validation that accepts every time string
validate_any_time(time_string) == TRUE

\* validate_time_string: '%H:%M:%S.%f' when the string holds a dot,
\* '%H:%M:%S' otherwise; %f takes one to six digits
validate_time_string(time_string) ==
    IF Contains(time_string, <<".">>)
    THEN LET p == Split(time_string, ".")
         IN  /\ Len(p) = 2
             /\ ParsesAsClock(p[1])
             /\ IsDigit(p[2]) /\ Len(p[2]) <= 6
    ELSE ParsesAsClock(time_string)

\* add_leading_zeroes(real_number, n)
add_leading_zeroes(real_number, n) ==
    LET bits == Split(real_number, ".")
    IN  ZFill(bits[1], n) \o <<".">> \o bits[2]

(***************************************************************************)
(* get_timestamp: the body of the loop over the lines of the metadata file *)
(*                                                                         *)
(* A line is a record [key, value]: key tells which of the configured      *)
(* marker substrings occurs in the line ("date", "time", "other", or       *)
(* "empty" for an empty line) and value is line.strip().split('=')[1]      *)
(* .strip(), the characters of the value.  The timestamp dictionary is a   *)
(* function from the keys set so far to their texts.                       *)
(***************************************************************************)
ZERO_TIMEZONE == <<"+", "0", "0", "0", "0">>

EmptyDict == <<>>

SetItem(dict, key, value) == (key :> value) @@ dict

HasKey(dict, key) == key \in DOMAIN dict

Raised(kind) == [raised |-> kind, date_time |-> EmptyDict]

Returned(dict) == [raised |-> "", date_time |-> dict]

\* round((microseconds / 10000000), 6), in microseconds.  The fractions of
\* the model do not end in 5, where the binary value decides the rounding.
RoundMicroseconds(fraction) == (fraction + 5) \div 10

\* format(seconds + microseconds, '.6f')
FormatSeconds(seconds, microseconds) ==
    LET total == seconds * 1000000 + microseconds
    IN  DigitsOf(total \div 1000000) \o <<".">> \o ZFill(DigitsOf(total % 1000000), 6)

\* the seconds text once the microseconds are added (lines 540-549)
SecondsWithMicroseconds(seconds, fraction) ==
    add_leading_zeroes(
        FormatSeconds(IntOf(seconds), RoundMicroseconds(IntOf(fraction))), 2)

\* if float(seconds) < 10: seconds = seconds.split('.')[0]
DropFractionBelowTen(seconds) ==
    IF IntOf(Split(seconds, ".")[1]) < 10 THEN Split(seconds, ".")[1] ELSE seconds

\* the branch "get Date" (lines 518-520)
DateLine(date_time, value) ==
    IF validate_date_string(value)
    THEN Returned(SetItem(date_time, "date", value))
    ELSE Raised("ValueError")

\* first, zero timezone if 'Z' is the last character (lines 530-531)
TimeZoneOf(date_time, line) ==
    IF EndsWith(line, "Z")
    THEN SetItem(date_time, "timezone", ZERO_TIMEZONE)
    ELSE date_time

\* the branch "get Time" (lines 523-561)
TimeLine(date_time, value, skip_microseconds) ==
    LET line     == Remove(value, "\"")
        zoned    == TimeZoneOf(date_time, line)
        time     == Remove(line, "Z")
        dotparts == Split(time, ".")
        hms      == Split(dotparts[1], ":")
    IN  IF Len(hms) # 3 THEN Raised("ValueError")
        ELSE IF ~skip_microseconds /\ Len(dotparts) < 2 THEN Raised("IndexError")
        ELSE IF ~skip_microseconds /\ ~(IsDigit(dotparts[2]) /\ IsDigit(hms[3]))
             THEN Raised("ValueError")
        ELSE IF skip_microseconds /\ ~IsDigit(hms[3]) THEN Raised("ValueError")
        ELSE LET added   == IF skip_microseconds THEN hms[3]
                            ELSE SecondsWithMicroseconds(hms[3], dotparts[2])
                 seconds == DropFractionBelowTen(added)
                 joined  == Join(<<hms[1], hms[2], seconds>>, ":")
             IN  IF ~validate_time_string(joined) THEN Raised("ValueError")
                 ELSE Returned(
                        SetItem(SetItem(SetItem(zoned,
                            "hours", ZFill(DigitsOf(IntOf(hms[1])), 2)),
                            "minutes", ZFill(DigitsOf(IntOf(hms[2])), 2)),
                            "seconds", seconds))

\* one iteration of "for line in metadata.readlines()"
ReadLine(date_time, line, skip_microseconds) ==
    IF line.key = "date" THEN DateLine(date_time, line.value)
    ELSE IF line.key = "time" THEN TimeLine(date_time, line.value, skip_microseconds)
    ELSE Returned(date_time)

(***************************************************************************)
(* The renderings of a timestamp.  A timestamp is [kind |-> "dict", dict]  *)
(* when it was parsed from the metadata file and [kind |-> "str", str]     *)
(* when it is the manual timestamp of the options.                         *)
(***************************************************************************)
DictTimestamp(dict) == [kind |-> "dict", dict |-> dict, str |-> ""]

StrTimestamp(str) == [kind |-> "str", dict |-> EmptyDict, str |-> str]

\* the month names of the table MONTHS
MONTHS ==
    <<"January", "February", "March", "April", "May", "June", "July",
      "August", "September", "October", "November", "December">>

\* strftime('%b')
MonthAbbreviation ==
    <<"Jan", "Feb", "Mar", "Apr", "May", "Jun", "Jul", "Aug", "Sep", "Oct",
      "Nov", "Dec">>

\* the day, the month and the year of strftime("%d %b %Y") for the date
\* strptime(date, "%Y-%m-%d") reads
DateTgisParts(date) ==
    LET p == Split(date, "-")
    IN  <<ZFill(DigitsOf(IntOf(p[3])), 2), MonthAbbreviation[IntOf(p[2])],
          ZFill(p[1], 4)>>

\* datetime.strftime(datetime.strptime(date, "%Y-%m-%d"), "%d %b %Y")
DateTgis(date) ==
    LET q == DateTgisParts(date)
    IN  Str(q[1]) \o " " \o q[2] \o " " \o Str(q[3])

\* the time of print_timestamp: joined, given '.000000' when it holds no
\* dot, parsed and printed again with '%H:%M:%S.%f' (lines 581-588)
ClockText(dict) ==
    LET joined == Join(<<dict["hours"], dict["minutes"], dict["seconds"]>>, ":")
        dotted == IF Contains(joined, <<".">>) THEN joined
                  ELSE joined \o <<".", "0", "0", "0", "0", "0", "0">>
        p      == Split(dotted, ".")
        hms    == Split(p[1], ":")
    IN  ZFill(DigitsOf(IntOf(hms[1])), 2) \o <<":">>
        \o ZFill(DigitsOf(IntOf(hms[2])), 2) \o <<":">>
        \o ZFill(DigitsOf(IntOf(hms[3])), 2) \o <<".">>
        \o PadRight(p[2], 6)

ClockTime(dict) == Str(ClockText(dict))

\* the first failing subscript of print_timestamp and of the builders of
\* timestamp.py: "" when every field can be read
ReadFailure(timestamp) ==
    IF timestamp.kind = "str" THEN "TypeError"
    ELSE IF ~HasKey(timestamp.dict, "date") THEN "KeyError"
    ELSE IF ~ParsesAsDate(timestamp.dict["date"]) THEN "ValueError"
    ELSE IF ~HasKey(timestamp.dict, "hours") THEN "KeyError"
    ELSE IF ~HasKey(timestamp.dict, "minutes") THEN "KeyError"
    ELSE IF ~HasKey(timestamp.dict, "seconds") THEN "KeyError"
    ELSE IF ~HasKey(timestamp.dict, "timezone") THEN "KeyError"
    ELSE ""

\* print_timestamp with tgis: '{p}{s}|{d} {t}' (line 604)
TgisMessage(prefix, scene, timestamp) ==
    prefix \o scene \o "|" \o DateTgis(timestamp.dict["date"]) \o " "
    \o ClockTime(timestamp.dict)

\* print_timestamp without tgis: the message with date, time and timezone
\* (lines 590-591, 612)
ReportMessage(timestamp) ==
    "Date\t\tTime\n\t" \o Str(timestamp.dict["date"]) \o "\t"
    \o ClockTime(timestamp.dict) \o " " \o Str(timestamp.dict["timezone"])
    \o "\n\n"

\* build_tgis_timestamp of timestamp.py (line 164)
build_tgis_timestamp(prefix, scene, timestamp) ==
    prefix \o scene \o "|" \o DateTgis(timestamp.dict["date"]) \o " "
    \o ClockTime(timestamp.dict) \o " " \o Str(timestamp.dict["timezone"])

\* simple_timestamp of timestamp.py
simple_timestamp(timestamp) ==
    Str(timestamp.dict["date"]) \o " " \o ClockTime(timestamp.dict) \o " "
    \o Str(timestamp.dict["timezone"])

\* day, month, year of set_timestamp: the parts of the date, the month
\* looked up in MONTHS (lines 623-630)
day_month_year(dict) ==
    LET p == Split(dict["date"], "-")
    IN  <<p[3], MONTHS[IntOf(p[2])], p[1]>>

\* ':'.join((hours, minutes, seconds)) (lines 633-638)
hours_minutes_seconds(dict) ==
    Join(<<dict["hours"], dict["minutes"], dict["seconds"]>>, ":")

\* a rendering that puts the month before the day
build_r_timestamp_month_first(timestamp) ==
    IF timestamp.kind = "dict"
    THEN LET q == day_month_year(timestamp.dict)
         IN  q[2] \o " " \o Str(q[1]) \o " " \o Str(q[3]) \o " "
             \o Str(hours_minutes_seconds(timestamp.dict))
    ELSE timestamp.str

\* the string set_timestamp hands to r.timestamp (lines 620-641), also
\* build_r_timestamp of timestamp.py
build_r_timestamp(timestamp) ==
    IF timestamp.kind = "dict"
    THEN LET q == day_month_year(timestamp.dict)
         IN  Str(q[1]) \o " " \o q[2] \o " " \o Str(q[3]) \o " "
             \o Str(hours_minutes_seconds(timestamp.dict))
    ELSE timestamp.str

(***************************************************************************)
(* Scene names and the templates of LANDSAT_IDENTIFIERS.                   *)
(***************************************************************************)
\* the keys of LANDSAT_IDENTIFIERS['scene_template'], in their order
SceneTemplateKeys == <<"Pre-Collection", "Collection 1">>

\* re.match(LANDSAT_IDENTIFIERS['scene_template'][key], scene)
SceneTemplateMatches(key, scene) ==
    \/ key = "Pre-Collection" /\ scene \in {"LC81840332014146LGN00"}
    \/ key = "Collection 1"
         /\ scene \in {"LC08_L1TP_184033_20140526_20170422_01_T1"}

\* the keys of LANDSAT_IDENTIFIERS['band_template']
BandTemplateKeys == {"Pre-Collection", "Collection 1"}

SceneNames ==
    {"LC81840332014146LGN00", "LC08_L1TP_184033_20140526_20170422_01_T1",
     "holiday_pictures"}

None == "None"

\* a resolver that returns the first key whatever the scene is
identify_first_key(scene) == SceneTemplateKeys[1]

\* identify_product_collection: the first key whose template matches; the
\* function falls off its end, returning None, when no template matches
identify_product_collection(scene) ==
    LET hits == {i \in 1..Len(SceneTemplateKeys) :
                    SceneTemplateMatches(SceneTemplateKeys[i], scene)}
    IN  IF hits = {} THEN None ELSE SceneTemplateKeys[Min(hits)]

\* the band template of a collection, with band_pattern filled in, matches
\* the file name
BandTemplateMatches(band, filename) ==
    /\ SplitExt(filename)[2] = <<".", "T", "I", "F">>
    /\ LastPart(SplitExt(filename)[1], <<"_">>) = <<"B">> \o band

\* retrieve_selected_filenames: for band in bands: for filename in listing
RECURSIVE MatchingFilenames(_, _)
MatchingFilenames(band, listing) ==
    IF Len(listing) = 0 THEN <<>>
    ELSE (IF BandTemplateMatches(band, listing[1]) THEN <<listing[1]>> ELSE <<>>)
         \o MatchingFilenames(band, Tail(listing))

RECURSIVE retrieve_selected_filenames(_, _)
retrieve_selected_filenames(bands, listing) ==
    IF Len(bands) = 0 THEN <<>>
    ELSE MatchingFilenames(bands[1], listing)
         \o retrieve_selected_filenames(Tail(bands), listing)

GEOTIFF_EXTENSION == <<".", "T", "I", "F">>

(***************************************************************************)
(* The spectral sets of LANDSAT_BANDS and their expansion.                 *)
(***************************************************************************)
\* LANDSAT_BANDS: the band indices of the named sets (Landsat 8)
LANDSAT_BANDS ==
    [visible      |-> <<<<"2">>, <<"3">>, <<"4">>>>,
     ndvi         |-> <<<<"4">>, <<"5">>>>,
     panchromatic |-> <<<<"8">>>>,
     tirs         |-> <<<<"1", "0">>, <<"1", "1">>>>,
     bqa          |-> <<<<"Q", "A">>>>]

SpectralSetNames == DOMAIN LANDSAT_BANDS

\* the elements of a list
Elements(list) == {list[i] : i \in DOMAIN list}

\* the lists that hold every element of a set once
RECURSIVE Orderings(_)
Orderings(S) ==
    IF S = {} THEN {<<>>}
    ELSE UNION {{<<x>> \o rest : rest \in Orderings(S \ {x})} : x \in S}

\* for spectral_set in spectral_sets: requested_bands.extend(bands)
RECURSIVE ExtendedBands(_)
ExtendedBands(spectral_sets_left) ==
    IF Len(spectral_sets_left) = 0 THEN <<>>
    ELSE LANDSAT_BANDS[spectral_sets_left[1]]
         \o ExtendedBands(Tail(spectral_sets_left))

\* a return that keeps the list as it was extended
ListAsExtended(list) == {list}

\* list(set(requested_bands)): the elements once each; the order is the
\* iteration order of the set, which the program does not decide
ListOfSet(list) == Orderings(Elements(list))

MTL_STRING == <<"M", "T", "L">>

\* get_name_band: the name of the raster map, the last part of the file
\* name without its extension
BandName(filename) == Str(LastPart(SplitExt(filename)[1], <<"_">>))

(***************************************************************************)
(* The inputs of the model.                                                *)
(***************************************************************************)
RECURSIVE SeqsUpTo(_, _)
SeqsUpTo(S, n) ==
    IF n = 0 THEN {<<>>}
    ELSE LET shorter == SeqsUpTo(S, n - 1)
         IN  shorter \cup {Append(s, x) : s \in shorter, x \in S}

\* the value of a time line: "HH:MM:SS[.fraction][Z]" in quotes
TimeValue(h, m, sec, fraction, z) ==
    <<"\"">> \o ZFill(DigitsOf(h), 2) \o <<":">> \o ZFill(DigitsOf(m), 2) \o <<":">>
    \o ZFill(DigitsOf(sec), 2)
    \o (IF fraction # <<>> THEN <<".">> \o fraction ELSE <<>>)
    \o (IF z THEN <<"Z">> ELSE <<>>) \o <<"\"">>

DateValue(y, sep, m, d) ==
    DigitsOf(y) \o <<sep>> \o ZFill(DigitsOf(m), 2) \o <<sep>> \o ZFill(DigitsOf(d), 2)

DateOf(value) == [key |-> "date", value |-> value]
TimeOf(value) == [key |-> "time", value |-> value]

Fraction1234560 == <<"1", "2", "3", "4", "5", "6", "0">>
Fraction5000000 == <<"5", "0", "0", "0", "0", "0", "0">>
Fraction9999999 == <<"9", "9", "9", "9", "9", "9", "9">>

DateGood      == DateOf(DateValue(2015, "-", 6, 12))
DateSlashes   == DateOf(DateValue(2015, "/", 6, 12))
DateNoSuchDay == DateOf(DateValue(2015, "-", 2, 30))
DateLeapDay   == DateOf(DateValue(2016, "-", 2, 29))
TimeGood      == TimeOf(TimeValue(9, 15, 23, Fraction1234560, TRUE))
TimeBelowTen  == TimeOf(TimeValue(9, 15, 9, Fraction5000000, TRUE))
TimeNoZone    == TimeOf(TimeValue(9, 15, 23, Fraction1234560, FALSE))
TimeNoFraction == TimeOf(TimeValue(9, 15, 23, <<>>, TRUE))
TimeRollsOver == TimeOf(TimeValue(23, 59, 59, Fraction9999999, TRUE))
TimeNoSuchHour == TimeOf(TimeValue(24, 15, 23, Fraction1234560, TRUE))
OtherLine     == [key |-> "other", value |-> <<"L", "1", "T">>]
EmptyLine     == [key |-> "empty", value |-> <<>>]

MetadataLines ==
    {DateGood, DateSlashes, DateNoSuchDay, DateLeapDay, TimeGood, TimeBelowTen,
     TimeNoZone, TimeNoFraction, TimeRollsOver, TimeNoSuchHour, OtherLine,
     EmptyLine}

\* the metadata files of the runs that go on to import bands
RunMetadataFiles ==
    {<<OtherLine, DateGood, TimeGood>>, <<DateSlashes, TimeGood>>,
     <<TimeGood>>, <<DateGood>>, <<DateGood, TimeNoZone>>,
     <<DateGood, EmptyLine, TimeBelowTen>>}

\* a scene directory as os.listdir returns it, in no particular order
SceneListing ==
    <<TifName(<<"1", "0">>), TifName(<<"2">>), MtlName, TifName(<<"Q", "A">>),
      TifName(<<"1">>)>>

BandOptions == {<<>>, <<<<"Q", "A">>, <<"2">>, <<"1">>>>, <<<<"1">>>>}

ManualTimestamp == "2015-06-12 09:15:23.123456 +0000"

Modes == {"import", "list", "tgis"}

FlagSets ==
    [skip_import : BOOLEAN, overwrite : BOOLEAN, force_timestamp : BOOLEAN,
     do_not_timestamp : BOOLEAN, link_geotiffs : BOOLEAN,
     skip_microseconds : BOOLEAN, remove_untarred : {FALSE}, mode : Modes]

\* a scene of options['scene']: a directory, or a tar.gz file of the
\* directory; the lines of its metadata file, when the file can be opened
SceneDirectory(name, lines) ==
    [name |-> name, archive |-> FALSE, readable |-> TRUE, metadata |-> lines]

SceneArchive(name, lines) ==
    [name |-> name, archive |-> TRUE, readable |-> TRUE, metadata |-> lines]

SceneWithoutMetadata(name, archive) ==
    [name |-> name, archive |-> archive, readable |-> FALSE, metadata |-> <<>>]

\* the path of a scene as the option gives it
ScenePath(scene) ==
    IF scene.archive THEN scene.name \o ".tar.gz" ELSE scene.name

\* options['scene'] of a list of scenes: the paths joined by commas
RECURSIVE SceneOption(_)
SceneOption(list) ==
    IF Len(list) = 0 THEN ""
    ELSE IF Len(list) = 1 THEN ScenePath(list[1])
    ELSE ScenePath(list[1]) \o "," \o SceneOption(Tail(list))

VARIABLES
    sort_in,    \* the list handed to sort_list_of_bands
    sort_out,   \* its result
    sort_pc,    \* "idle", "in", "sorted", "resorted"
    spectral_sets,   \* the list handed to retrieve_selected_sets_of_bands
    requested_bands, \* the list it builds, then the list it returns
    sets_pc,         \* "idle", "in", "extended", "returned"
    flags,      \* the flags of the run
    options,    \* the options of the run: scene, bands, timestamp, prefix, output_tgis
    scenes,     \* the scenes of options['scene'], scene.split(',')
    scene_i,    \* the next scene of the loop over landsat_scenes
    landsat_scene, \* the directory of the scene of the loop, "" before it
    directories,   \* the scene directories that exist
    metadata,   \* the lines of the metadata file of the scene
    rasters,    \* the raster maps of the store: <<mapset, name>>
    mapsets,    \* the mapsets created by the run
    pc,         \* where the run is
    error,      \* the error that ended the run, "" when none
    product_collection,
    bands,      \* "all" or the selected filenames
    handle,     \* the metadata file handle: "unopened", "open", "closed"
    line_i,     \* the next line of the metadata file
    date_time,  \* the dictionary get_timestamp builds
    timestamp,  \* what get_timestamp returned
    filenames,  \* the sorted filenames of the scene
    file_i,     \* the next filename
    calls,      \* the calls to the raster store, in order
    messages,   \* the messages, in order
    timestamps, \* the catalog lines
    tgis_file   \* the lines written to the catalog file, <<"unwritten">> before

sortVars == <<sort_in, sort_out, sort_pc>>

setVars == <<spectral_sets, requested_bands, sets_pc>>

inputVars == <<flags, options, scenes>>

sceneVars == <<scene_i, landsat_scene, directories, metadata>>

runVars ==
    <<rasters, mapsets, pc, error, product_collection, bands, handle, line_i,
      date_time, timestamp, filenames, file_i, calls, messages, timestamps,
      tgis_file>>

vars == <<sortVars, setVars, inputVars, sceneVars, runVars>>

Unwritten == <<"unwritten">>

NoTimestamp == [kind |-> "none", dict |-> EmptyDict, str |-> ""]

\* the run before main()
RunStart ==
    /\ scene_i = 1
    /\ landsat_scene = ""
    /\ mapsets = {}
    /\ pc = "main"
    /\ error = ""
    /\ product_collection = None
    /\ bands = <<>>
    /\ handle = "unopened"
    /\ line_i = 1
    /\ date_time = EmptyDict
    /\ timestamp = NoTimestamp
    /\ filenames = <<>>
    /\ file_i = 1
    /\ calls = <<>>
    /\ messages = <<>>
    /\ timestamps = <<>>
    /\ tgis_file = Unwritten

SortIdle == sort_in = <<>> /\ sort_out = <<>> /\ sort_pc = "idle"

SetsIdle == spectral_sets = <<>> /\ requested_bands = <<>> /\ sets_pc = "idle"

Mapset == landsat_scene

\* re.match anchors the template at the start of os.path.basename(scene):
\* of an option that names an archive or several scenes, the name of the
\* first scene is what the templates are matched against
SceneOfOption == scenes[1].name

\* a run that takes no flag for -l
NeverListMode == FALSE

\* list_bands, tgis (lines 830, 837)
ListMode == flags.mode = "list"
TgisMode == flags.mode = "tgis"

Call(op, target, date) == [op |-> op, target |-> target, date |-> date]

Message(kind, text) == [kind |-> kind, text |-> text]

(***************************************************************************)
(* main(): the product collection, the bands                               *)
(***************************************************************************)
\* lines 846-851: the collection of the scene and its band template; the
\* lookup of the template of None fails and the run ends with grass.fatal
IdentifyProduct ==
    /\ pc = "main"
    /\ product_collection' = identify_product_collection(SceneOfOption)
    /\ IF product_collection' \in BandTemplateKeys
       THEN pc' = "select" /\ error' = error
       ELSE pc' = "fatal" /\ error' = "UnrecognizedScene"
    /\ UNCHANGED <<sortVars, setVars, inputVars, sceneVars, rasters, mapsets, bands, handle, line_i,
                   date_time, timestamp, filenames, file_i, calls, messages,
                   timestamps, tgis_file>>

\* lines 855-862: the filenames of the requested bands, or 'all'
SelectBands ==
    /\ pc = "select"
    /\ bands' = IF options.bands = <<>> THEN <<>>
                ELSE retrieve_selected_filenames(options.bands, SceneListing)
    /\ pc' = "scene"
    /\ UNCHANGED <<sortVars, setVars, inputVars, sceneVars, rasters, mapsets,
                   error,
                   product_collection, handle, line_i, date_time, timestamp,
                   filenames, file_i, calls, messages, timestamps, tgis_file>>

\* lines 924-938: the head of the loop over landsat_scenes; a tar.gz file
\* is listed (and the loop left) with -l, extracted otherwise
NextScene ==
    /\ pc = "scene"
    /\ IF scene_i > Len(scenes)
       THEN /\ pc' = "written"
            /\ UNCHANGED <<landsat_scene, directories, metadata, messages>>
       ELSE LET scene == scenes[scene_i]
            IN  IF scene.archive /\ ListMode
                THEN /\ messages' = Append(messages,
                                           Message("members", ScenePath(scene)))
                     /\ pc' = "written"
                     /\ UNCHANGED <<landsat_scene, directories, metadata>>
                ELSE /\ directories' = IF scene.archive
                                       THEN directories \cup {scene.name}
                                       ELSE directories
                     /\ landsat_scene' = scene.name
                     /\ metadata' = scene.metadata
                     /\ pc' = "get_timestamp"
                     /\ UNCHANGED messages
    \* import_geotiffs and get_timestamp start with fresh locals
    /\ IF pc' = "get_timestamp"
       THEN /\ line_i' = 1
            /\ date_time' = EmptyDict
            /\ timestamp' = NoTimestamp
            /\ filenames' = <<>>
            /\ file_i' = 1
       ELSE UNCHANGED <<line_i, date_time, timestamp, filenames, file_i>>
    /\ UNCHANGED <<sortVars, setVars, inputVars, scene_i, rasters, mapsets,
                   error, product_collection, bands, handle, calls, timestamps,
                   tgis_file>>

\* lines 949-959: with -r, shutil.rmtree(scene) of the scene option; then
\* the next scene
RemoveUntarred ==
    /\ pc = "remove"
    /\ IF flags.remove_untarred /\ options.scene \notin directories
       THEN /\ pc' = "raised"
            /\ error' = "OSError"
            /\ UNCHANGED <<scene_i, directories>>
       ELSE /\ directories' = IF flags.remove_untarred
                              THEN directories \ {options.scene}
                              ELSE directories
            /\ scene_i' = scene_i + 1
            /\ pc' = "scene"
            /\ UNCHANGED error
    /\ UNCHANGED <<sortVars, setVars, inputVars, landsat_scene, metadata,
                   rasters, mapsets, product_collection, bands, handle, line_i,
                   date_time, timestamp, filenames, file_i, calls, messages,
                   timestamps, tgis_file>>

(***************************************************************************)
(* get_timestamp                                                           *)
(***************************************************************************)
\* lines 494-509: the manual timestamp of the options, or the metadata file
\* is opened.  When open() raises, the finally clause (lines 563-564) calls
\* metadata.close() on a name that was never bound: the UnboundLocalError
\* takes the place of the error of open()
GetTimestamp ==
    /\ pc = "get_timestamp"
    /\ IF options.timestamp # ""
       THEN /\ timestamp' = StrTimestamp(options.timestamp)
            /\ pc' = "print_timestamp"
            /\ UNCHANGED <<handle, line_i, date_time, error>>
       ELSE IF ~scenes[scene_i].readable
       THEN /\ date_time' = EmptyDict
            /\ error' = "UnboundLocalError"
            /\ pc' = "raised"
            /\ UNCHANGED <<handle, line_i, timestamp>>
       ELSE /\ handle' = "open"
            /\ date_time' = EmptyDict
            /\ line_i' = 1
            /\ pc' = "read"
            /\ UNCHANGED <<timestamp, error>>
    /\ UNCHANGED <<sortVars, setVars, inputVars, sceneVars, rasters, mapsets,
                   product_collection, bands, filenames, file_i, calls,
                   messages, timestamps, tgis_file>>

\* lines 511-561: one line of the file; an exception leaves through the
\* finally clause, which closes the file
ReadMetadataLine ==
    /\ pc = "read"
    /\ line_i <= Len(metadata)
    /\ LET result == ReadLine(date_time, metadata[line_i], flags.skip_microseconds)
       IN  IF result.raised # ""
           THEN /\ handle' = "closed"
                /\ error' = result.raised
                /\ pc' = "raised"
                /\ UNCHANGED <<date_time, line_i>>
           ELSE /\ date_time' = result.date_time
                /\ line_i' = line_i + 1
                /\ UNCHANGED <<handle, error, pc>>
    /\ UNCHANGED <<sortVars, setVars, inputVars, sceneVars, rasters, mapsets, product_collection,
                   bands, timestamp, filenames, file_i, calls, messages,
                   timestamps, tgis_file>>

\* lines 563-566: the file is closed and the dictionary returned
ReturnTimestamp ==
    /\ pc = "read"
    /\ line_i > Len(metadata)
    /\ handle' = "closed"
    /\ timestamp' = DictTimestamp(date_time)
    /\ pc' = "print_timestamp"
    /\ UNCHANGED <<sortVars, setVars, inputVars, sceneVars, rasters, mapsets,
                   error,
                   product_collection, bands, line_i, date_time, filenames,
                   file_i, calls, messages, timestamps, tgis_file>>

(***************************************************************************)
(* import_geotiffs                                                         *)
(***************************************************************************)
\* a list that forgets the lines of the scenes before
OnlyTheLastLine(lines, message) == <<message>>

\* timestamps.append(message) (lines 607-609)
AppendTimestamp(lines, message) == Append(lines, message)

\* lines 684-712: print_timestamp, then the filenames are sorted
PrintTimestamp ==
    /\ pc = "print_timestamp"
    /\ IF ReadFailure(timestamp) # ""
       THEN /\ error' = ReadFailure(timestamp)
            /\ pc' = "raised"
            /\ UNCHANGED <<messages, timestamps, filenames, file_i>>
       ELSE /\ messages' = Append(messages,
                IF TgisMode
                THEN Message("tgis",
                        TgisMessage(options.prefix, landsat_scene, timestamp))
                ELSE Message("report", ReportMessage(timestamp)))
            /\ timestamps' =
                IF TgisMode /\ options.output_tgis # ""
                THEN AppendTimestamp(timestamps,
                        TgisMessage(options.prefix, landsat_scene, timestamp))
                ELSE timestamps
            /\ filenames' = IF options.bands = <<>>
                            THEN sort_list_of_bands(SceneListing)
                            ELSE sort_list_of_bands(bands)
            /\ file_i' = 1
            /\ pc' = "files"
            /\ UNCHANGED error
    /\ UNCHANGED <<sortVars, setVars, inputVars, sceneVars, rasters, mapsets, product_collection,
                   bands, handle, line_i, date_time, timestamp, calls, tgis_file>>

\* a loop that imports an existing band although it is to be skipped
CallsOfBandNeverSkipping(name, exists) ==
    LET stamp == Call("r.timestamp", name, build_r_timestamp(timestamp))
    IN  <<Call("g.mapset", Mapset, ""),
          Call(IF flags.link_geotiffs THEN "r.external" ELSE "r.in.gdal", name, "")>>
        \o (IF flags.do_not_timestamp THEN <<>> ELSE <<stamp>>)

\* the calls of one pass of the loop over the filenames (lines 738-806)
CallsOfBand(name, exists) ==
    LET stamp == Call("r.timestamp", name, build_r_timestamp(timestamp))
    IN  <<Call("g.mapset", Mapset, "")>>
        \o (IF flags.skip_import /\ exists /\ ~flags.overwrite
            THEN (IF flags.force_timestamp THEN <<stamp>> ELSE <<>>)
            ELSE (IF flags.overwrite /\ exists /\ flags.force_timestamp
                  THEN <<stamp>> ELSE <<>>)
                 \o <<Call(IF flags.link_geotiffs THEN "r.external" ELSE "r.in.gdal",
                           name, "")>>
                 \o (IF flags.do_not_timestamp THEN <<>> ELSE <<stamp>>))

\* the messages of one pass of the loop (lines 724-788)
MessagesOfBand(name, filename, exists) ==
    LET band   == Message("band", Str(filename))
        forced == Message("forced", name)
    IN  (IF ~TgisMode /\ ~flags.skip_import THEN <<band>> ELSE <<>>)
        \o (IF ListMode \/ TgisMode THEN <<>>
            ELSE IF flags.skip_import /\ exists /\ ~flags.overwrite
            THEN (IF flags.force_timestamp THEN <<forced>> ELSE <<>>)
                 \o <<Message("skipping", name)>>
            ELSE (IF flags.overwrite /\ exists
                  THEN (IF flags.force_timestamp THEN <<forced>> ELSE <<>>)
                       \o <<Message("overwriting", name)>>
                  ELSE <<>>)
                 \o (IF flags.skip_import /\ ~exists THEN <<band>> ELSE <<>>))

\* lines 714-806: one filename of the scene
ImportFile ==
    /\ pc = "files"
    /\ file_i <= Len(filenames)
    /\ LET filename == filenames[file_i]
           name     == BandName(filename)
           exists   == <<Mapset, name>> \in rasters
       IN  IF SplitExt(filename)[2] # GEOTIFF_EXTENSION
           THEN /\ file_i' = file_i + 1
                /\ UNCHANGED <<pc, error, calls, messages, rasters, mapsets>>
           ELSE IF Contains(filename, MTL_STRING)
           THEN /\ pc' = "fatal"
                /\ error' = "MTL file with the .TIF extension"
                /\ UNCHANGED <<file_i, calls, messages, rasters, mapsets>>
           ELSE /\ file_i' = file_i + 1
                /\ messages' = messages \o MessagesOfBand(name, filename, exists)
                /\ IF ListMode \/ TgisMode
                   THEN UNCHANGED <<calls, rasters, mapsets>>
                   ELSE /\ calls' = calls \o CallsOfBand(name, exists)
                        /\ mapsets' = mapsets \cup {Mapset}
                        /\ rasters' =
                             IF flags.skip_import /\ exists /\ ~flags.overwrite
                             THEN rasters
                             ELSE rasters \cup {<<Mapset, name>>}
                /\ UNCHANGED <<pc, error>>
    /\ UNCHANGED <<sortVars, setVars, inputVars, sceneVars, product_collection, bands, handle,
                   line_i, date_time, timestamp, filenames, timestamps, tgis_file>>

\* lines 811-819: the metadata file is copied beside the imported bands
CopyMetadata ==
    /\ pc = "files"
    /\ file_i > Len(filenames)
    /\ calls' = IF ListMode \/ TgisMode THEN calls
                ELSE Append(calls, Call("copy_mtl", Mapset, ""))
    /\ pc' = "remove"
    /\ UNCHANGED <<sortVars, setVars, inputVars, sceneVars, rasters, mapsets,
                   error,
                   product_collection, bands, handle, line_i, date_time,
                   timestamp, filenames, file_i, messages, timestamps, tgis_file>>

\* lines 961-970: the catalog lines are written to the output file
WriteCatalog ==
    /\ pc = "written"
    /\ tgis_file' = IF TgisMode /\ options.output_tgis # "" THEN timestamps
                    ELSE tgis_file
    /\ pc' = "done"
    /\ UNCHANGED <<sortVars, setVars, inputVars, sceneVars, rasters, mapsets,
                   error,
                   product_collection, bands, handle, line_i, date_time,
                   timestamp, filenames, file_i, calls, messages, timestamps>>

Next ==
    \/ IdentifyProduct
    \/ SelectBands
    \/ NextScene
    \/ GetTimestamp
    \/ ReadMetadataLine
    \/ ReturnTimestamp
    \/ PrintTimestamp
    \/ ImportFile
    \/ CopyMetadata
    \/ RemoveUntarred
    \/ WriteCatalog

(***************************************************************************)
(* Spec: the runs over one scene with every combination of the flags.      *)
(***************************************************************************)
BandRasters == {"B1", "B2"}

\* the scene option names one scene directory
OneScene ==
    /\ scenes = <<SceneDirectory(options.scene, metadata)>>
    /\ directories = {options.scene}

Init ==
    /\ SortIdle
    /\ SetsIdle
    /\ flags \in FlagSets
    /\ options \in
         [scene : SceneNames, bands : BandOptions,
          timestamp : {"", ManualTimestamp}, prefix : {""}, output_tgis : {""}]
    /\ metadata \in RunMetadataFiles
    /\ options.timestamp # "" => metadata = <<OtherLine, DateGood, TimeGood>>
    /\ OneScene
    /\ \E existing \in SUBSET BandRasters :
          rasters = {<<options.scene, n>> : n \in existing}
    /\ RunStart

Spec == Init /\ [][Next]_vars

(***************************************************************************)
(* SpecParse: the runs over every metadata file of up to MaxLines lines,   *)
(* importing all bands of the scene, listing them or writing the catalog.  *)
(***************************************************************************)
ParseFlagSets ==
    [skip_import : {FALSE}, overwrite : {FALSE}, force_timestamp : {FALSE},
     do_not_timestamp : {FALSE}, link_geotiffs : {FALSE},
     skip_microseconds : BOOLEAN, remove_untarred : {FALSE}, mode : Modes]

ParseInit ==
    /\ SortIdle
    /\ SetsIdle
    /\ flags \in ParseFlagSets
    /\ options \in
         [scene : {"LC08_L1TP_184033_20140526_20170422_01_T1"}, bands : {<<>>},
          timestamp : {""}, prefix : {"", "L8_"},
          output_tgis : {"", "timestamps.csv"}]
    /\ flags.mode # "tgis" => (options.prefix = "" /\ options.output_tgis = "")
    /\ metadata \in SeqsUpTo(MetadataLines, MaxLines)
    /\ OneScene
    /\ rasters = {}
    /\ RunStart

SpecParse == ParseInit /\ [][Next]_vars

(***************************************************************************)
(* SpecScenes: the runs over up to MaxScenes scenes, directories and       *)
(* tar.gz files, with and without -r, -l and -t.                           *)
(***************************************************************************)
SceneFlagSets ==
    [skip_import : {FALSE}, overwrite : {FALSE}, force_timestamp : {FALSE},
     do_not_timestamp : {FALSE}, link_geotiffs : {FALSE},
     skip_microseconds : {FALSE}, remove_untarred : BOOLEAN, mode : Modes]

RecognizedNames ==
    {"LC81840332014146LGN00", "LC08_L1TP_184033_20140526_20170422_01_T1"}

\* metadata files of the scenes: one that parses, one with a malformed date
SceneMetadataFiles == {<<DateGood, TimeGood>>, <<DateSlashes, TimeGood>>}

SceneEntries ==
    {SceneDirectory(n, m) : n \in RecognizedNames, m \in SceneMetadataFiles}
    \cup {SceneArchive(n, m) : n \in RecognizedNames, m \in SceneMetadataFiles}
    \cup {SceneWithoutMetadata(n, a) : n \in RecognizedNames, a \in BOOLEAN}

ScenesInit ==
    /\ SortIdle
    /\ SetsIdle
    /\ flags \in SceneFlagSets
    /\ scenes \in SeqsUpTo(SceneEntries, MaxScenes) \ {<<>>}
    /\ options \in
         [scene : {SceneOption(scenes)}, bands : {<<>>}, timestamp : {""},
          prefix : {""}, output_tgis : {"", "timestamps.csv"}]
    /\ flags.mode # "tgis" => options.output_tgis = ""
    /\ directories =
         {scenes[i].name : i \in {k \in DOMAIN scenes : ~scenes[k].archive}}
    /\ metadata = <<>>
    /\ rasters = {}
    /\ RunStart

SpecScenes == ScenesInit /\ [][Next]_vars

(***************************************************************************)
(* SpecSort: sort_list_of_bands over the lists of scene files.             *)
(***************************************************************************)
RunIdle ==
    /\ flags = CHOOSE f \in FlagSets : TRUE
    /\ options = [scene |-> "", bands |-> <<>>, timestamp |-> "", prefix |-> "",
                  output_tgis |-> ""]
    /\ scenes = <<>>
    /\ directories = {}
    /\ metadata = <<>>
    /\ rasters = {}
    /\ RunStart

SortFiles == SceneFiles \cup {AuxName}

SortInit ==
    /\ sort_in \in SeqsUpTo(SortFiles, MaxBands)
    /\ sort_out = <<>>
    /\ sort_pc = "in"
    /\ SetsIdle
    /\ RunIdle

\* filenames = sort_list_of_bands(...)
SortBands ==
    /\ sort_pc = "in"
    /\ sort_out' = sort_list_of_bands(sort_in)
    /\ sort_pc' = "sorted"
    /\ UNCHANGED <<sort_in, setVars, inputVars, sceneVars, runVars>>

\* the sorted list is sorted again (a second run over the same listing)
SortAgain ==
    /\ sort_pc = "sorted"
    /\ sort_in' = sort_out
    /\ sort_out' = sort_list_of_bands(sort_out)
    /\ sort_pc' = "resorted"
    /\ UNCHANGED <<setVars, inputVars, sceneVars, runVars>>

SortNext == SortBands \/ SortAgain

SpecSort == SortInit /\ [][SortNext]_vars

(***************************************************************************)
(* SpecSets: retrieve_selected_sets_of_bands over the lists of up to       *)
(* MaxSets spectral sets.                                                  *)
(***************************************************************************)
SetsInit ==
    /\ spectral_sets \in SeqsUpTo(SpectralSetNames, MaxSets) \ {<<>>}
    /\ requested_bands = <<>>
    /\ sets_pc = "in"
    /\ SortIdle
    /\ RunIdle

\* lines 343-346: the bands of every set are appended to requested_bands
ExtendRequestedBands ==
    /\ sets_pc = "in"
    /\ requested_bands' = ExtendedBands(spectral_sets)
    /\ sets_pc' = "extended"
    /\ UNCHANGED <<spectral_sets, sortVars, inputVars, sceneVars, runVars>>

\* line 348: return list(set(requested_bands))
ReturnSetOfBands ==
    /\ sets_pc = "extended"
    /\ requested_bands' \in ListOfSet(requested_bands)
    /\ sets_pc' = "returned"
    /\ UNCHANGED <<spectral_sets, sortVars, inputVars, sceneVars, runVars>>

SetsNext == ExtendRequestedBands \/ ReturnSetOfBands

SpecSets == SetsInit /\ [][SetsNext]_vars

(***************************************************************************)
(* The properties.                                                         *)
(***************************************************************************)
Recognized(scene) ==
    scene \in {"LC81840332014146LGN00", "LC08_L1TP_184033_20140526_20170422_01_T1"}

StoreOps == {"r.in.gdal", "r.external", "r.timestamp"}

ImportOps == {"r.in.gdal", "r.external"}

Ended == pc \in {"done", "raised", "fatal"}

\* C1: a scene name that matches a template resolves to a collection whose
\* template matches it; a name that matches none ends the run with the
\* unrecognized-scene error before a mapset is created, a band imported or
\* a timestamp set.
C1_SceneResolution ==
    /\ product_collection # None
         => SceneTemplateMatches(product_collection, options.scene)
    /\ (pc # "main" /\ Recognized(options.scene)) => product_collection # None
    /\ (pc # "main" /\ ~Recognized(options.scene))
         => /\ pc = "fatal"
            /\ error = "UnrecognizedScene"
            /\ calls = <<>>
            /\ mapsets = {}
            /\ handle = "unopened"
            /\ timestamp = NoTimestamp

C1_Witness ==
    /\ pc = "fatal"
    /\ error = "UnrecognizedScene"
    /\ options.scene = "holiday_pictures"
    /\ flags.mode = "import"

\* the band number a file name carries: the digits of a last segment
\* B<digits> of the name before its extension, -1 when there are none
ClaimedBandNumber(filename) ==
    LET segment == LastPart(Partition(filename, <<".">>)[1], <<"_">>)
    IN  IF Len(segment) >= 2 /\ segment[1] = "B" /\ IsDigit(Tail(segment))
        THEN IntOf(Tail(segment))
        ELSE -1

InBandOrder(a, b) ==
    /\ (ClaimedBandNumber(a) >= 0 /\ ClaimedBandNumber(b) >= 0)
         => ClaimedBandNumber(a) <= ClaimedBandNumber(b)
    /\ ClaimedBandNumber(a) = -1 => ClaimedBandNumber(b) = -1
    /\ ClaimedBandNumber(a) = ClaimedBandNumber(b) => (a = b \/ LexLess(a, b))

Occurs(list, x) == Cardinality({i \in 1..Len(list) : list[i] = x})

\* C2: the sorted list holds the same file names, ordered by band number
\* (2 before 10), the names without a band number after all the others,
\* equal band numbers in the order of the names; sorting a sorted list
\* leaves it as it is.
C2_BandOrdering ==
    /\ sort_pc \in {"sorted", "resorted"}
         => /\ \A f \in SortFiles : Occurs(sort_out, f) = Occurs(sort_in, f)
            /\ \A i, j \in 1..Len(sort_out) :
                  i < j => InBandOrder(sort_out[i], sort_out[j])
    /\ sort_pc = "resorted" => sort_out = sort_in

C2_Witness ==
    /\ sort_pc = "sorted"
    /\ sort_in = <<TifName(<<"1", "0">>), TifName(<<"Q", "A">>), TifName(<<"2">>)>>
    /\ sort_out = <<TifName(<<"2">>), TifName(<<"1", "0">>), TifName(<<"Q", "A">>)>>

\* get_timestamp returned the dictionary it parsed from the metadata file
Parsed == timestamp.kind = "dict"

\* C3: with the microseconds kept, the seconds of a parsed timestamp are
\* rendered with exactly six decimal digits and an integer part of at least
\* two digits, also below ten seconds (09.500000).
C3_SixDecimalDigits ==
    (Parsed /\ ~flags.skip_microseconds /\ HasKey(timestamp.dict, "seconds"))
      => LET parts == Split(timestamp.dict["seconds"], ".")
         IN  Len(parts) = 2 /\ Len(parts[2]) = 6 /\ Len(parts[1]) >= 2

\* C4: a timestamp parsed from a time line has the timezone +0000, whether
\* the time value ends in Z or carries no timezone marker.
C4_TimezoneDefault ==
    (Parsed /\ HasKey(timestamp.dict, "hours"))
      => /\ HasKey(timestamp.dict, "timezone")
         /\ timestamp.dict["timezone"] = ZERO_TIMEZONE

\* C5: get_timestamp never returns a dictionary that lacks the date, the
\* hours, the minutes or the seconds.
C5_NoPartialTimestamp ==
    Parsed => {"date", "hours", "minutes", "seconds"} \subseteq DOMAIN timestamp.dict

\* the date values that are no YYYY-MM-DD calendar date
MalformedDates == {DateValue(2015, "/", 6, 12), DateValue(2015, "-", 2, 30)}

IsMalformedDateLine(line) == line.key = "date" /\ line.value \in MalformedDates

\* C6: a date line whose value is no YYYY-MM-DD calendar date raises the
\* error of a malformed timestamp: the parser never goes past such a line
\* and never returns, and the run issues no set_timestamp and no import
\* call.
C6_MalformedDateStops ==
    (options.timestamp = ""
        /\ \E i \in 1..Len(metadata) : IsMalformedDateLine(metadata[i]))
      => /\ \A i \in 1..(line_i - 1) : ~IsMalformedDateLine(metadata[i])
         /\ ~Parsed
         /\ pc \in {"main", "select", "scene", "get_timestamp", "read", "raised",
                   "fatal"}
         /\ (pc = "raised" /\ IsMalformedDateLine(metadata[line_i]))
              => error = "ValueError"
         /\ \A k \in 1..Len(calls) : calls[k].op \notin StoreOps

C6_Witness ==
    /\ pc = "raised"
    /\ error = "ValueError"
    /\ metadata = <<DateSlashes, TimeGood>>
    /\ line_i = 1
    /\ handle = "closed"
    /\ flags.mode = "import"
    /\ calls = <<>>

\* one pass of the loop over a GeoTIFF whose raster map exists already
ExistingBandStep ==
    /\ pc = "files"
    /\ file_i <= Len(filenames)
    /\ file_i' = file_i + 1
    /\ flags.mode = "import"
    /\ SplitExt(filenames[file_i])[2] = <<".", "T", "I", "F">>
    /\ <<options.scene, BandName(filenames[file_i])>> \in rasters

NewCalls == SubSeq(calls', Len(calls) + 1, Len(calls'))

NewMessages == SubSeq(messages', Len(messages) + 1, Len(messages'))

CountCalls(list, ops, target) ==
    Cardinality({k \in 1..Len(list) : list[k].op \in ops /\ list[k].target = target})

Notified(list, kind, name) ==
    \E k \in 1..Len(list) : list[k].kind = kind /\ list[k].text = name

\* what the loop does for an existing band; stamps is the number of
\* set_timestamp calls allowed for a band that is skipped
ExistingBandRule(stamps) ==
    LET name == BandName(filenames[file_i])
    IN  /\ (flags.skip_import /\ ~flags.overwrite)
             => /\ CountCalls(NewCalls, ImportOps, name) = 0
                /\ CountCalls(NewCalls, {"r.timestamp"}, name) = stamps
                /\ Notified(NewMessages, "skipping", name)
                /\ rasters' = rasters
        /\ flags.overwrite
             => /\ Notified(NewMessages, "overwriting", name)
                /\ CountCalls(NewCalls, ImportOps, name) = 1

\* C7 as stated: a band that is skipped gets no import, no link and no
\* set_timestamp call, whatever the other flags are.
C7_SkippedBandUntouched == [][ExistingBandStep => ExistingBandRule(0)]_vars

\* C7 amended: a band that is skipped gets no import and no link call, and
\* no set_timestamp call unless force-timestamp is set, when it gets exactly
\* one; a skipping notice is reported.  With overwrite, an overwriting
\* notice is reported and the band is imported (or linked) again.
C7_SkipAndOverwrite ==
    [][ExistingBandStep
         => ExistingBandRule(IF flags.force_timestamp THEN 1 ELSE 0)]_vars

C7_Witness ==
    /\ pc = "files"
    /\ file_i = 2
    /\ flags.mode = "import"
    /\ flags.skip_import /\ ~flags.overwrite /\ ~flags.force_timestamp
    /\ filenames[1] = TifName(<<"1">>)
    /\ <<options.scene, "B1">> \in rasters
    /\ calls = <<Call("g.mapset", options.scene, "")>>
    /\ Notified(messages, "skipping", "B1")

\* the calls to import, link and timestamp, in order
RECURSIVE StoreCalls(_)
StoreCalls(list) ==
    IF Len(list) = 0 THEN <<>>
    ELSE (IF list[1].op \in StoreOps THEN <<list[1]>> ELSE <<>>)
         \o StoreCalls(Tail(list))

\* metadata with a calendar date and a time of day
ValidMetadata ==
    metadata \in {<<OtherLine, DateGood, TimeGood>>, <<DateGood, TimeNoZone>>,
                  <<DateGood, EmptyLine, TimeBelowTen>>}

PlainImportRun ==
    /\ flags.mode = "import"
    /\ ~flags.skip_import /\ ~flags.overwrite /\ ~flags.force_timestamp
    /\ ~flags.do_not_timestamp /\ ~flags.link_geotiffs
    /\ options.timestamp = ""
    /\ Recognized(options.scene)

\* C8: a plain import run over valid metadata with bands=QA,2,1 ends with
\* the calls import B1, set_timestamp B1, import B2, set_timestamp B2,
\* import BQA, set_timestamp BQA, every set_timestamp with the same string.
C8_CallSequence ==
    (PlainImportRun /\ ValidMetadata /\ Ended
        /\ options.bands = <<<<"Q", "A">>, <<"2">>, <<"1">>>>)
      => /\ pc = "done"
         /\ LET issued  == StoreCalls(calls)
                targets == <<"B1", "B2", "BQA">>
            IN  /\ Len(issued) = 6
                /\ \A k \in 1..3 :
                      /\ issued[2 * k - 1].op = "r.in.gdal"
                      /\ issued[2 * k - 1].target = targets[k]
                      /\ issued[2 * k].op = "r.timestamp"
                      /\ issued[2 * k].target = targets[k]
                      /\ issued[2 * k].date = issued[2].date

\* C9: with a manual timestamp the metadata file is never opened, the scene
\* is processed to the end and every set_timestamp call gets the manual
\* timestamp as it is.
C9_ManualTimestamp ==
    (options.timestamp # "" /\ Recognized(options.scene))
      => /\ handle = "unopened"
         /\ Ended => pc = "done"
         /\ \A k \in 1..Len(calls) :
               calls[k].op = "r.timestamp" => calls[k].date = options.timestamp

\* C10: the catalog line of print_timestamp is the line build_tgis_timestamp
\* builds from the same prefix, scene and timestamp.
C10_SameCatalogLine ==
    \A k \in 1..Len(messages) :
        messages[k].kind = "tgis"
          => messages[k].text
               = build_tgis_timestamp(options.prefix, options.scene, timestamp)

\* the report of print_timestamp with the date in the form "DD Mon YYYY"
ReportWithDateTgis(ts) ==
    "Date\t\tTime\n\t" \o DateTgis(ts.dict["date"]) \o "\t"
    \o ClockTime(ts.dict) \o " " \o Str(ts.dict["timezone"]) \o "\n\n"

\* C11: the report message of print_timestamp and the string of
\* simple_timestamp give the date of the parsed timestamp as "DD Mon YYYY"
\* (12 Jun 2015), followed by the time and the timezone.
C11_HumanReportDate ==
    \A k \in 1..Len(messages) :
        messages[k].kind = "report"
          => /\ messages[k].text = ReportWithDateTgis(timestamp)
             /\ simple_timestamp(timestamp)
                  = DateTgis(timestamp.dict["date"]) \o " "
                    \o ClockTime(timestamp.dict) \o " "
                    \o Str(timestamp.dict["timezone"])

\* the number of the month a table gives the name to
MonthNumber(name, table) == CHOOSE i \in 1..12 : table[i] = name

\* the calendar date <<year, month, day>> a rendering of day, month name
\* and year denotes
DateDenoted(parts, table) ==
    <<IntOf(parts[3]), MonthNumber(parts[2], table), IntOf(parts[1])>>

\* the calendar date the "YYYY-MM-DD" of the report denotes
ReportDateDenoted(date) ==
    LET p == Split(date, "-") IN <<IntOf(p[1]), IntOf(p[2]), IntOf(p[3])>>

\* the time of day "HH:MM:SS[.ffffff]" denotes: <<seconds, microseconds>>
TimeOfDay(clock) ==
    LET p   == Split(clock, ".")
        hms == Split(p[1], ":")
    IN  <<(IntOf(hms[1]) * 60 + IntOf(hms[2])) * 60 + IntOf(hms[3]),
          IF Len(p) > 1 THEN IntOf(PadRight(p[2], 6)) ELSE 0>>

\* "<day> <Month-name> <year> <HH:MM:SS[.ffffff]>" from the fields of a
\* timestamp
StoreTimestampString(dict) ==
    LET p == Split(dict["date"], "-")
    IN  Str(p[3]) \o " " \o MONTHS[IntOf(p[2])] \o " " \o Str(p[1]) \o " "
        \o Str(dict["hours"]) \o ":" \o Str(dict["minutes"]) \o ":"
        \o Str(dict["seconds"])

\* C12: every set_timestamp call of a run with a parsed timestamp gets the
\* string "<day> <Month-name> <year> <HH:MM:SS[.ffffff]>" of the fields of
\* that timestamp, and this string denotes the calendar date and the time
\* of day that the catalog line and the report of the same timestamp denote.
C12_StoreTimestamp ==
    \A k \in 1..Len(calls) :
        (calls[k].op = "r.timestamp" /\ Parsed)
          => LET dict == timestamp.dict
             IN  /\ calls[k].date = StoreTimestampString(dict)
                 /\ DateDenoted(day_month_year(dict), MONTHS)
                      = DateDenoted(DateTgisParts(dict["date"]), MonthAbbreviation)
                 /\ DateDenoted(day_month_year(dict), MONTHS)
                      = ReportDateDenoted(dict["date"])
                 /\ TimeOfDay(hours_minutes_seconds(dict))
                      = TimeOfDay(ClockText(dict))

\* a band of the leap day 2016-02-29 is stamped, the seconds below ten
C12_Witness ==
    /\ Parsed
    /\ metadata = <<DateLeapDay, TimeBelowTen>>
    /\ \E k \in 1..Len(calls) :
          /\ calls[k].op = "r.timestamp"
          /\ calls[k].date = "29 February 2016 09:15:09"

\* the band indices of the spectral sets of a list: their union
UnionOfSets(names) ==
    UNION {Elements(LANDSAT_BANDS[names[i]]) : i \in DOMAIN names}

\* C13: the list retrieve_selected_sets_of_bands returns holds every band
\* index of the union of the named spectral sets exactly once, and no
\* index outside the union, also for overlapping sets and a set named twice.
C13_SetUnion ==
    sets_pc = "returned"
      => /\ \A b \in UnionOfSets(spectral_sets) :
               Cardinality({k \in DOMAIN requested_bands :
                               requested_bands[k] = b}) = 1
         /\ \A k \in DOMAIN requested_bands :
               requested_bands[k] \in UnionOfSets(spectral_sets)

\* visible and ndvi share band 4: four indices are returned, 4 among them
C13_Witness ==
    /\ sets_pc = "returned"
    /\ spectral_sets = <<"visible", "ndvi">>
    /\ Len(requested_bands) = 4
    /\ \E k \in DOMAIN requested_bands : requested_bands[k] = <<"4">>

IsPrefix(a, b) == Len(a) <= Len(b) /\ SubSeq(b, 1, Len(a)) = a

\* the dictionary get_timestamp returns for the lines of a metadata file
\* that raises nothing
RECURSIVE ParseLines(_, _)
ParseLines(dict, lines) ==
    IF Len(lines) = 0 THEN dict
    ELSE ParseLines(ReadLine(dict, lines[1], flags.skip_microseconds).date_time,
                    Tail(lines))

\* timestamp derivation completes for the scene
Derivable(scene) ==
    scene.readable /\ scene.metadata \in {<<DateGood, TimeGood>>}

\* the catalog lines of the scenes, in their order, up to the first scene
\* whose timestamp derivation fails
RECURSIVE CatalogLinesOf(_)
CatalogLinesOf(list) ==
    IF Len(list) = 0 \/ ~Derivable(list[1]) THEN <<>>
    ELSE <<TgisMessage(options.prefix, list[1].name,
                       DictTimestamp(ParseLines(EmptyDict, list[1].metadata)))>>
         \o CatalogLinesOf(Tail(list))

CatalogState ==
    /\ IsPrefix(timestamps, CatalogLinesOf(scenes))
    /\ pc \in {"raised", "fatal"} => tgis_file = Unwritten
    /\ tgis_file # Unwritten
         => /\ pc = "done"
            /\ scene_i > Len(scenes)
            /\ tgis_file = CatalogLinesOf(scenes)
            /\ Len(tgis_file) = Len(scenes)

CatalogStep ==
    /\ IsPrefix(timestamps, timestamps')
    /\ tgis_file # Unwritten => tgis_file' = tgis_file
    /\ tgis_file' # tgis_file => (scene_i > Len(scenes) /\ tgis_file' = timestamps)

OpenFailed ==
    /\ pc = "raised"
    /\ options.timestamp = ""
    /\ scene_i <= Len(scenes)
    /\ ~scenes[scene_i].readable

\* the errors of open()
OpenErrors == {"FileNotFoundError", "PermissionError", "OSError"}

\* C15: outside the loop over its lines the metadata file is not open, on
\* the return of get_timestamp as on every error it raises; and when the
\* file cannot be opened the run ends with the error of open(), no handle
\* open.
C15_HandleRelease ==
    /\ pc # "read" => handle # "open"
    /\ OpenFailed => (error \in OpenErrors /\ handle # "open")

\* "YYYY-MM-DD" names a day of the calendar
ValidCalendarDate(date) ==
    LET p == Split(date, "-")
    IN  /\ Len(p) = 3
        /\ \A i \in 1..3 : IsDigit(p[i])
        /\ IntOf(p[2]) \in 1..12
        /\ IntOf(p[3]) \in 1..DaysIn(IntOf(p[1]), IntOf(p[2]))

\* the time line whose fraction rounds up to a whole second is among the
\* lines of the metadata file
HoldsRollOver == \E i \in DOMAIN metadata : metadata[i] = TimeRollsOver

\* C16: a returned timestamp with a time has its hours in 0..23, its
\* minutes in 0..59 and the integer part of its seconds in 0..59, and its
\* date is a day of the calendar; a time of 59.9999999 seconds, read with
\* its microseconds, is never returned.
C16_FieldRanges ==
    Parsed
      => /\ HasKey(timestamp.dict, "hours")
              => /\ IntOf(timestamp.dict["hours"]) \in 0..23
                 /\ IntOf(timestamp.dict["minutes"]) \in 0..59
                 /\ IntOf(Split(timestamp.dict["seconds"], ".")[1]) \in 0..59
         /\ HasKey(timestamp.dict, "date")
              => ValidCalendarDate(timestamp.dict["date"])
         /\ ~(HoldsRollOver /\ ~flags.skip_microseconds)

\* the last second of the leap day, read without its microseconds, is
\* returned as 23:59:59
C16_Witness ==
    /\ Parsed
    /\ metadata = <<DateLeapDay, TimeRollsOver>>
    /\ flags.skip_microseconds
    /\ timestamp.dict["hours"] = <<"2", "3">>
    /\ timestamp.dict["minutes"] = <<"5", "9">>
    /\ timestamp.dict["seconds"] = <<"5", "9">>

\* the scene is a tar.gz file and no scene of the run is the directory of
\* its name: the directory, when it exists, was extracted by the run
ExtractedByRun(i) ==
    /\ scenes[i].archive
    /\ \A k \in DOMAIN scenes : scenes[k].name = scenes[i].name => scenes[k].archive

\* C17: when a run with -r has ended, with or without an error, no
\* directory that it extracted from a tar.gz scene is left, and the
\* directory removed after a scene is the directory of that scene.
C17_ExtractedDirectoriesRemoved ==
    (Ended /\ flags.remove_untarred)
      => \A i \in DOMAIN scenes :
            ExtractedByRun(i) => scenes[i].name \notin directories

\* C18: in a run with -l or -t no mapset is created, no r.in.gdal,
\* r.external, r.timestamp or copy of the metadata file is called, and the
\* raster maps of the store stay as they were, whatever the other flags and
\* the existing raster maps are.
C18_StoreUntouched ==
    /\ [](flags.mode \in {"list", "tgis"} => (calls = <<>> /\ mapsets = {}))
    /\ [][flags.mode \in {"list", "tgis"} => rasters' = rasters]_vars

\* a -l run with -s and -f over a scene whose bands B1 and B2 exist has
\* listed every file of the scene
C18_Witness ==
    /\ pc = "done"
    /\ flags.mode = "list"
    /\ flags.skip_import /\ flags.force_timestamp
    /\ rasters = {<<landsat_scene, "B1">>, <<landsat_scene, "B2">>}
    /\ file_i > Len(filenames)
    /\ calls = <<>>

====
